---- MODULE Spec2Model ----
(***************************************************************************)
(* Tab Limiter (MV3 service worker, src/background.js).                    *)
(*                                                                         *)
(* The worker is a set of asynchronous event handlers.  Every `await` on a *)
(* chrome.* call is a suspension point, so a handler invocation is         *)
(* modelled as a record with a program counter that advances one chrome.*  *)
(* call at a time; the invocations in flight are kept in dispatch order.   *)
(* The browser side (windows, tabs, the two storage areas, the badge) is   *)
(* the shared state the calls read and write.                              *)
(*                                                                         *)
(* Two specifications share the same handler steps:                        *)
(*   Spec     every interleaving of the steps of the invocations in flight *)
(*            with the browser's tab events;                               *)
(*   SpecSeq  invocations run one after another in dispatch order, and the *)
(*            browser's tab events fall between two runs (several tabs may *)
(*            appear before the first of their handlers runs).             *)
(***************************************************************************)
EXTENDS Integers, Sequences, FiniteSets, TLC

(* ------------------------------ bounds -------------------------------- *)
\* Window ids the browser may use.
NumWindows == 2
\* Spec: unpinned tabs open at start-up.
InitTabs == 2
\* Spec: open unpinned tabs never exceed this.
MaxTabs == 4
\* Spec: invocations between their first step and their return.
MaxInFlight == 2
\* Spec: number of browser events in one behaviour.
MaxEvents == 2
\* SpecSeq: number of tabs created in one behaviour.
MaxCreatedSeq == 6
\* SpecSeq: number of other browser events in one behaviour.
MaxOtherSeq == 1
\* SpecFail: number of browser events in one behaviour.
MaxFailEvents == 3
\* SpecRace: number of tabs created in one behaviour.
MaxRaceEvents == 3
\* SpecTwin, SpecAlert: number of tabs created in one behaviour.
MaxTwinTabs == 3
\* SpecTwin: number of teardowns of the worker in one behaviour.
MaxTeardowns == 1
\* SpecPasses: largest stored passes at the start and largest increment.
MaxPasses == 5
MaxAmount == 5

(* ------------------------- program constants --------------------------- *)
\* SpecSeq starts with this many tabs (the batch scenario of the test-suite).
BatchStartTabs == 10

Null == "null"

DEFAULT_OPTIONS ==
  [ maxTotal |-> 50,
    maxWindow |-> 20,
    exceedTabNewWindow |-> FALSE,
    displayAlert |-> TRUE,
    countPinnedTabs |-> FALSE,
    displayBadge |-> FALSE,
    alertMessage |-> "You decided not to open more than {maxPlace} tabs in {place}" ]

SESSION_DEFAULTS ==
  [ tabCount |-> -1,
    previousTabCount |-> -1,
    amountOfTabsCreated |-> -1,
    passes |-> 0 ]

Windows == 1..NumWindows

(* --------------------------- storage areas ----------------------------- *)
\* chrome.storage.<area>.get(defaults): every key of `defaults`, with the
\* stored value when the area holds the key and the default otherwise.
StorageGet(store, defaults) ==
  [k \in DOMAIN defaults |-> IF k \in DOMAIN store THEN store[k] ELSE defaults[k]]

\* set(updates) replacing the whole area.
StorageSet_overwrite(store, updates) == updates

\* chrome.storage.<area>.set(updates): the keys of `updates` are replaced or
\* added, every other key is kept.
StorageSet(store, updates) ==
  [k \in (DOMAIN store) \cup (DOMAIN updates) |->
     IF k \in DOMAIN updates THEN updates[k] ELSE store[k]]

\* A store holding key k with value v for v \in S (S empty: the empty store).
Single(k, S) == [x \in {k : v \in S} |-> CHOOSE v \in S : TRUE]

(* ------------------------------- state --------------------------------- *)
VARIABLES
  winTabs,        \* browser: unpinned tabs open in each window
  winPinned,      \* browser: pinned tabs open in each window
  currentWindow,  \* browser: the window `currentWindow: true` refers to
  session,        \* chrome.storage.session: the keys stored so far
  sync,           \* chrome.storage.sync: user options and the defaultOptions key
  badge,          \* chrome.action badge text
  inflight,       \* handler invocations dispatched and not yet returned
  events,         \* browser events so far: [created, other]
  hist,           \* observation of the run (notifications, closures, batches)
  twin            \* SpecTwin, SpecAlert: two workers fed the same events

vars == <<winTabs, winPinned, currentWindow, session, sync, badge, inflight,
          events, hist, twin>>

(* --------------------------- pure functions ---------------------------- *)
RECURSIVE SumOver(_, _)
SumOver(f, S) ==
  IF S = {} THEN 0
  ELSE LET x == CHOOSE y \in S : TRUE IN f[x] + SumOver(f, S \ {x})

\* JavaScript's NaN, written as an integer that no count and no limit takes.
NaN == -1000000

\* a > b evaluated as !(a <= b).
JsGt_notLe(a, b) == ~(a # NaN /\ b # NaN /\ a <= b)

\* JavaScript's relational operators on the numbers of the options: every
\* comparison with NaN is false.
JsLt(a, b) == a # NaN /\ b # NaN /\ a < b
JsGt(a, b) == a # NaN /\ b # NaN /\ a > b

\* a - b: NaN when either side is.
JsMinus(a, b) == IF a = NaN \/ b = NaN THEN NaN ELSE a - b

\* Number.prototype.toString: the decimal digits, "-" first when negative.
Digits == <<"0", "1", "2", "3", "4", "5", "6", "7", "8", "9">>
RECURSIVE DecimalOf(_)
DecimalOf(n) ==
  IF n < 10 THEN Digits[n + 1] ELSE DecimalOf(n \div 10) \o Digits[(n % 10) + 1]
NumberToString(x) ==
  IF x = NaN THEN "NaN"
  ELSE IF x < 0 THEN "-" \o DecimalOf(-x) ELSE DecimalOf(x)

\* chrome.tabs.query(params).length
chromeTabsQuery(params) ==
  LET ws == IF params.currentWindow THEN {currentWindow} ELSE Windows
      n  == [w \in Windows |->
               winTabs[w] + (IF params.pinned = "false" THEN 0 ELSE winPinned[w])]
  IN  SumOver(n, ws)

\* Line 75 with the test of countPinnedTabs inverted.
tabQueryParams_inverted(options, params) ==
  IF options.countPinnedTabs THEN [params EXCEPT !.pinned = "false"] ELSE params

\* The parameters tabQuery hands to chrome.tabs.query.
tabQueryParams(options, params) ==
  IF ~options.countPinnedTabs THEN [params EXCEPT !.pinned = "false"] ELSE params

tabQuery(options, params) == chromeTabsQuery(tabQueryParams(options, params))

InWindow == [currentWindow |-> TRUE, pinned |-> "any"]
Everywhere == [currentWindow |-> FALSE, pinned |-> "any"]

\* Line 83 giving what is left of the total.
windowRemaining_global(options) ==
  JsMinus(options.maxWindow, tabQuery(options, Everywhere))

windowRemaining(options) == JsMinus(options.maxWindow, tabQuery(options, InWindow))
totalRemaining(options) == JsMinus(options.maxTotal, tabQuery(options, Everywhere))

\* Math.min of two numbers: NaN when either is.
Min(a, b) == IF a = NaN \/ b = NaN THEN NaN ELSE IF a < b THEN a ELSE b

\* getSessionState: the four keys, defaults where the store has none.
getSessionState == StorageGet(session, SESSION_DEFAULTS)

\* getOptions returning the compiled-in defaults whatever is stored.
getOptions_ignoresStored == DEFAULT_OPTIONS

\* getOptions: the stored defaultOptions snapshot (or the compiled-in
\* defaults) is the base of the second read.
getOptions ==
  LET defaults == IF "defaultOptions" \in DOMAIN sync
                  THEN sync["defaultOptions"] ELSE DEFAULT_OPTIONS
  IN  StorageGet(sync, defaults)

\* getOptions, lines 60-69: the options read, or on a rejected read (either
\* of the two) the compiled-in defaults of the catch branch.
getOptionsResult(ok) == IF ok THEN getOptions ELSE DEFAULT_OPTIONS

\* The comparison of line 148 with the boundary included.
detectTooManyTabsInWindow_atLimit(options, len) ==
  IF JsLt(options.maxWindow, 1) THEN Null
  ELSE IF ~JsLt(len, options.maxWindow) THEN "window"
  ELSE Null

detectTooManyTabsInWindow(options, len) ==
  IF JsLt(options.maxWindow, 1) THEN Null
  ELSE IF JsGt(len, options.maxWindow) THEN "window"
  ELSE Null

detectTooManyTabsInTotal(options, len) ==
  IF JsLt(options.maxTotal, 1) THEN Null
  ELSE IF JsGt(len, options.maxTotal) THEN "total"
  ELSE Null

\* totalResult || windowResult
OrElse_totalFirst(windowResult, totalResult) ==
  IF totalResult # Null THEN totalResult ELSE windowResult

\* windowResult || totalResult
OrElse(windowResult, totalResult) ==
  IF windowResult # Null THEN windowResult ELSE totalResult

detectTabLimitExceeded(options, windowLen, totalLen) ==
  OrElse(detectTooManyTabsInWindow(options, windowLen),
         detectTooManyTabsInTotal(options, totalLen))

\* Line 127 without the test of the first observation.
amountOfTabsCreatedOf_noFirst(previousTabCount, tabCount) ==
  tabCount - previousTabCount

\* updateTabCount, lines 125-127: the delta of a changed count.
amountOfTabsCreatedOf(previousTabCount, tabCount) ==
  IF previousTabCount # -1 THEN tabCount - previousTabCount ELSE 0

\* Line 212 without the test of the place.
exceedAction_anyPlace(options, place) ==
  IF options.exceedTabNewWindow THEN "relocate" ELSE "remove"

\* handleExceedTabs: which chrome call is made for the tab.
exceedAction(options, place) ==
  IF options.exceedTabNewWindow /\ place = "window" THEN "relocate" ELSE "remove"

\* Lines 264-272 without the branch of line 269.
afterAlert_noFallback(amountOfTabsCreated) ==
  IF amountOfTabsCreated = 1 THEN "exceed"
  ELSE IF amountOfTabsCreated > 1 THEN "set_passes"
  ELSE "done"

\* Lines 264-272 without the branch of line 264.
afterAlert_noSingle(amountOfTabsCreated) ==
  IF amountOfTabsCreated > 1 THEN "set_passes"
  ELSE IF amountOfTabsCreated = -1 THEN "exceed"
  ELSE "done"

\* Lines 264-272 with the batch branch enforcing as well.
afterAlert_batchEnforces(amountOfTabsCreated) ==
  IF amountOfTabsCreated = 1 THEN "exceed"
  ELSE IF amountOfTabsCreated > 1 THEN "exceed"
  ELSE IF amountOfTabsCreated = -1 THEN "exceed"
  ELSE "done"

\* displayAlert with the rejection of notifications.create not caught (it
\* reaches the catch of handleTabCreated, line 273).
afterNotify_throws(ok, next) == IF ok THEN next ELSE "done"

\* displayAlert, lines 195-204: a rejected notifications.create is caught
\* and logged; handleTabCreated goes on either way.
afterNotify(ok, next) == next

\* handleTabCreated, lines 264-272: the step after the alert.
afterAlert(amountOfTabsCreated) ==
  IF amountOfTabsCreated = 1 THEN "exceed"
  ELSE IF amountOfTabsCreated > 1 THEN "set_passes"
  ELSE IF amountOfTabsCreated = -1 THEN "exceed"
  ELSE "done"

(* ------------------------ handler invocations -------------------------- *)
NoTab == [win |-> 0, alive |-> FALSE]

\* What SpecSeq observes about a batch: the invocation that set passes for
\* a delta d > 1, and what happened from then on.
NoBatch ==
  [ d |-> 0, prev |-> 0, cnt |-> 0, fresh |-> FALSE, seen |-> 0, supp |-> 0,
    alerts |-> 0, acts |-> 0, newTabs |-> 0, removed |-> 0 ]

\* The listeners registered when the script is evaluated (lines 21-25): the
\* kind of invocation each event dispatches.
Listeners ==
  [ e \in {"tabs.onCreated", "tabs.onRemoved", "tabs.onUpdated",
           "windows.onFocusChanged", "runtime.onInstalled"} |->
      CASE e = "tabs.onCreated" -> "created"           \* handleTabCreated
        [] e = "runtime.onInstalled" -> "installed"    \* handleInstalled
        [] OTHER -> "update" ]                         \* handleUpdate

\* The first chrome call of each listener that touches shared state.
entryOf(kind) ==
  CASE kind = "created"   -> "detect"         \* handleTabCreated
    [] kind = "installed" -> "set_defaults"   \* handleInstalled
    [] OTHER              -> "utc_query"      \* handleUpdate, start-up pass

NewInvocation(kind, tab) ==
  [ kind |-> kind, pc |-> entryOf(kind), tab |-> tab,
    \* locals of handleTabCreated
    options |-> DEFAULT_OPTIONS, place |-> Null, windowLen |-> 0, totalLen |-> 0,
    delta |-> 0, passes |-> 0,
    \* locals of updateTabCount and its caller
    ret |-> "hu", len |-> 0, previousTabCount |-> 0, tabCount |-> 0, amount |-> 0,
    \* what the invocation did
    wroteCount |-> FALSE, firstObs |-> FALSE, wrotePasses |-> -1, alerted |-> FALSE, acted |-> "none",
    replaced |-> <<>>, refreshed |-> FALSE, badgeOptions |-> DEFAULT_OPTIONS,
    optionsOk |-> TRUE, ioFailed |-> FALSE,
    queryFailed |-> FALSE, ctx |-> NoBatch,
    \* the window detectTooManyTabsInWindow found too full (0: none)
    detectWin |-> 0,
    \* updateTabCount returned a difference of two recorded counts
    deltaKnown |-> FALSE ]

\* How a specification runs the handlers: one after another or interleaved,
\* with or without rejecting chrome calls.
ConcMode == [seq |-> FALSE, fail |-> FALSE, race |-> FALSE, variant |-> FALSE]
SeqMode == [seq |-> TRUE, fail |-> FALSE, race |-> FALSE, variant |-> FALSE]
FailMode == [seq |-> TRUE, fail |-> TRUE, race |-> FALSE, variant |-> FALSE]
\* SpecRace: every interleaving, as in Spec, of the handlers of tabs created
\* in the focused window, with the observation of SpecSeq.
RaceMode == [seq |-> FALSE, fail |-> FALSE, race |-> TRUE, variant |-> FALSE]
\* SpecVariant: as SpecRace, with the limit detection of the service-worker
\* variant in src/unnamed/part_001.
VariantMode == [seq |-> FALSE, fail |-> FALSE, race |-> TRUE, variant |-> TRUE]

\* Whether a chrome call resolves (TRUE) or rejects (FALSE).
Outcomes(m) == IF m.fail THEN BOOLEAN ELSE {TRUE}

Idx == 1..Len(inflight)
Unstarted(h) == h.pc = entryOf(h.kind)
TotalEvents == events.created + events.other
OpenUnpinned == SumOver(winTabs, Windows)
PendingTabsIn(w) ==
  Cardinality({i \in Idx : inflight[i].kind = "created" /\ inflight[i].tab.alive
                           /\ inflight[i].tab.win = w})
WindowOpen(w) == winTabs[w] + winPinned[w] > 0

NoneDone == \A i \in Idx : inflight[i].pc # "done"

Running == Cardinality({i \in Idx : ~Unstarted(inflight[i])})

\* The browser delivers an event: between two runs in SpecSeq, at any time
\* in Spec.  (A settled invocation is dropped before anything else happens.)
Accept(m) ==
  /\ NoneDone
  /\ m.seq => \A i \in Idx : Unstarted(inflight[i])

CanCreate(m) ==
  IF m.fail THEN TotalEvents < MaxFailEvents
  ELSE IF m.race THEN events.created < MaxRaceEvents
  ELSE IF m.seq THEN events.created < MaxCreatedSeq
  ELSE TotalEvents < MaxEvents /\ OpenUnpinned < MaxTabs

CanOther(m) ==
  IF m.fail THEN TotalEvents < MaxFailEvents
  ELSE IF m.seq THEN events.other < MaxOtherSeq
  ELSE TotalEvents < MaxEvents

\* Only the oldest invocation runs in SpecSeq.  In Spec any invocation
\* takes its next step, and one that has not started yet starts while fewer
\* than MaxInFlight others are between their first step and their return.
StepOK(i, m) ==
  /\ i \in Idx
  /\ NoneDone
  /\ IF m.seq THEN i = 1
     ELSE Unstarted(inflight[i]) => Running < MaxInFlight

\* Spec keeps the invocations in flight as a bag: their order carries no
\* information there, so they are kept sorted by program counter.  SpecSeq
\* keeps them in dispatch order.
PcRank(pc) ==
  CASE pc = "done" -> 0 [] pc = "badge" -> 1 [] pc = "exceed" -> 2
    [] pc = "set_passes" -> 3 [] pc = "alert" -> 4 [] pc = "dec_passes" -> 5
    [] pc = "get_passes" -> 6 [] pc = "utc_set" -> 7 [] pc = "utc_get" -> 8
    [] pc = "utc_query" -> 9 [] pc = "detect" -> 10 [] OTHER -> 11
Before(a, b) == PcRank(a.pc) < PcRank(b.pc)
Arrange(m, seq) == IF m.seq THEN seq ELSE SortSeq(seq, Before)

\* An event dispatches handleUpdate.  Spec bounds the handleUpdate
\* invocations that wait for their first step to one: an event that arrives
\* while one is waiting is served by it (it has read nothing yet).
DispatchUpdate(m, seq) ==
  IF ~m.seq /\ \E j \in 1..Len(seq) :
                 seq[j].kind \in {"update", "startup"} /\ Unstarted(seq[j])
  THEN seq
  ELSE Append(seq, NewInvocation(Listeners["tabs.onRemoved"], NoTab))

RemoveAt(seq, i) == [j \in 1..(Len(seq) - 1) |-> IF j < i THEN seq[j] ELSE seq[j + 1]]

\* The observation is kept in SpecSeq, SpecFail and SpecRace.
Observe(m, h) == IF m.seq \/ m.race THEN h ELSE hist

BatchCreated(b) == IF b.d > 0 THEN [b EXCEPT !.newTabs = @ + 1] ELSE b
BatchRemoved(b) == IF b.d > 0 THEN [b EXCEPT !.removed = @ + 1] ELSE b

\* Spec, SpecSeq and SpecFail run one worker: there is no twin.
NoTwin == <<>>

(* ------------------------------- Init ---------------------------------- *)
\* The state when the worker script has run: listeners registered, the
\* start-up pass (the IIFE) dispatched, nothing stored in the session area.
\* `overrides` are the option values the user has saved.
InitWith(tabChoices, pinnedChoices, overrides) ==
  /\ \E n \in tabChoices, p \in pinnedChoices :
       /\ winTabs = [w \in Windows |-> IF w = 1 THEN n ELSE 0]
       /\ winPinned = [w \in Windows |-> IF w = 1 THEN p ELSE 0]
  /\ currentWindow = 1
  /\ session = [k \in {} |-> 0]
  /\ sync \in overrides
  /\ badge = ""
  /\ inflight = <<NewInvocation("startup", NoTab)>>
  /\ events = [created |-> 0, other |-> 0]
  /\ hist = [alerts |-> 0, acts |-> 0, pure |-> TRUE, burst |-> TRUE,
             settled |-> FALSE, batch |-> NoBatch]
  /\ twin = NoTwin

\* Saved options: each key either absent (the default applies) or set.
Overrides(totals, windows, newWindow, alert, pinned, badges) ==
  { Single("maxTotal", mt) @@ Single("maxWindow", mw)
    @@ Single("exceedTabNewWindow", nw) @@ Single("displayAlert", da)
    @@ Single("countPinnedTabs", cp) @@ Single("displayBadge", db) :
    mt \in totals, mw \in windows, nw \in newWindow, da \in alert,
    cp \in pinned, db \in badges }

Init ==
  InitWith({InitTabs}, {1},
           Overrides({{0}, {3}}, {{0}, {2}}, {{}, {TRUE}}, {{}}, {{}, {TRUE}}, {{}})
           \cup Overrides({{0}, {3}}, {{0}, {2}}, {{}, {TRUE}}, {{FALSE}},
                          {{}, {TRUE}}, {{TRUE}}))

InitSeq ==
  InitWith({BatchStartTabs}, {0},
           Overrides({{}, {0}, {12}}, {{}, {12}}, {{}, {TRUE}}, {{}, {FALSE}},
                     {{}}, {{}}))

\* A defaultOptions snapshot stored by an earlier version of the extension.
OLD_DEFAULT_OPTIONS == [DEFAULT_OPTIONS EXCEPT !.maxWindow = 3, !.displayBadge = TRUE]

\* Some saved limits are not numbers (service-worker.test.js:921-932).
InitFail ==
  InitWith({InitTabs}, {1},
           { o @@ d : o \in Overrides({{}, {3}}, {{}, {2}}, {{}, {TRUE}}, {{}},
                                      {{}, {TRUE}}, {{}}),
                     d \in { [k \in {} |-> 0],
                             [defaultOptions |-> OLD_DEFAULT_OPTIONS] } }
           \cup Overrides({{NaN}}, {{2}, {NaN}}, {{}}, {{}}, {{}}, {{}, {TRUE}})
           \cup Overrides({{3}}, {{NaN}}, {{}}, {{}}, {{}}, {{}}))

(* --------------------------- browser events ---------------------------- *)
\* A tab is created in window w: tabs.onCreated -> handleTabCreated(tab).
CreateTab(w, m) ==
  /\ Accept(m) /\ CanCreate(m)
  /\ (m.seq \/ m.race) => w = currentWindow
  /\ winTabs' = [winTabs EXCEPT ![w] = @ + 1]
  /\ inflight' = Arrange(m, Append(inflight,
       NewInvocation(Listeners["tabs.onCreated"], [win |-> w, alive |-> TRUE])))
  /\ events' = [events EXCEPT !.created = @ + 1]
  /\ hist' = Observe(m, [hist EXCEPT
       !.burst = @ /\ (events.created = 0
                       \/ \E i \in Idx : inflight[i].kind = "created"),
       !.settled = IF events.created = 0
                   THEN \A i \in Idx : inflight[i].kind # "startup" ELSE @,
       !.batch = BatchCreated(@)])
  /\ UNCHANGED <<twin, winPinned, currentWindow, session, sync, badge>>

\* The user closes a tab of window w that no pending handler was dispatched
\* for: tabs.onRemoved -> handleUpdate.
RemoveTab(w, m) ==
  /\ Accept(m) /\ CanOther(m)
  /\ m.seq => w = currentWindow
  /\ winTabs[w] > PendingTabsIn(w)
  /\ w = currentWindow => winTabs[w] + winPinned[w] > 1
  /\ winTabs' = [winTabs EXCEPT ![w] = @ - 1]
  /\ inflight' = Arrange(m, DispatchUpdate(m, inflight))
  /\ events' = [events EXCEPT !.other = @ + 1]
  /\ hist' = Observe(m, [hist EXCEPT !.pure = FALSE, !.batch = BatchRemoved(@)])
  /\ UNCHANGED <<twin, winPinned, currentWindow, session, sync, badge>>

\* The user closes the tab of a pending tab-created invocation.
RemovePendingTab(i, m) ==
  /\ Accept(m) /\ CanOther(m)
  /\ i \in Idx /\ inflight[i].kind = "created" /\ inflight[i].tab.alive
  /\ LET w == inflight[i].tab.win IN
       /\ w = currentWindow => winTabs[w] + winPinned[w] > 1
       /\ winTabs' = [winTabs EXCEPT ![w] = @ - 1]
  /\ inflight' = Arrange(m, DispatchUpdate(m, [inflight EXCEPT ![i].tab.alive = FALSE]))
  /\ events' = [events EXCEPT !.other = @ + 1]
  /\ hist' = Observe(m, [hist EXCEPT !.pure = FALSE, !.batch = BatchRemoved(@)])
  /\ UNCHANGED <<twin, winPinned, currentWindow, session, sync, badge>>

\* A tab of window w changes (it loads, its title changes): tabs.onUpdated
\* -> handleUpdate.  The tab inventory stays as it is.
UpdateTab(w, m) ==
  /\ Accept(m) /\ CanOther(m)
  /\ winTabs[w] + winPinned[w] > 0
  /\ inflight' = Arrange(m, DispatchUpdate(m, inflight))
  /\ events' = [events EXCEPT !.other = @ + 1]
  /\ hist' = Observe(m, [hist EXCEPT !.pure = FALSE])
  /\ UNCHANGED <<twin, winTabs, winPinned, currentWindow, session, sync, badge>>

\* Another window gets the focus: windows.onFocusChanged -> handleUpdate.
FocusChanged(w, m) ==
  /\ Accept(m) /\ CanOther(m)
  /\ w # currentWindow /\ WindowOpen(w)
  /\ currentWindow' = w
  /\ inflight' = Arrange(m, DispatchUpdate(m, inflight))
  /\ events' = [events EXCEPT !.other = @ + 1]
  /\ hist' = Observe(m, [hist EXCEPT !.pure = FALSE])
  /\ UNCHANGED <<twin, winTabs, winPinned, session, sync, badge>>

\* The extension is installed or updated: runtime.onInstalled -> handleInstalled.
Installed(m) ==
  /\ Accept(m) /\ CanOther(m)
  /\ inflight' = Arrange(m, Append(inflight,
       NewInvocation(Listeners["runtime.onInstalled"], NoTab)))
  /\ events' = [events EXCEPT !.other = @ + 1]
  /\ hist' = Observe(m, [hist EXCEPT !.pure = FALSE])
  /\ UNCHANGED <<twin, winTabs, winPinned, currentWindow, session, sync, badge>>

(* ---------------------------- handler steps ---------------------------- *)
\* A step is one chrome call that reads or writes state shared between
\* invocations (tab inventory, session area, badge), with the local
\* computation that follows it.  getOptions reads the sync area, which no
\* step changes the outcome of, and is taken together with the step after it.

\* Every caller of updateTabCount continuing as handleTabCreated does.
afterUpdateTabCount_allEnforce(ret) == "get_passes"

\* Where updateTabCount returns to: handleTabCreated (line 254) or
\* handleUpdate (line 236).
afterUpdateTabCount(ret) == IF ret = "tc" THEN "get_passes" ELSE "badge"

\* Line 249 without the early return.
afterDetect_noReturn(place) == "tc"

\* handleTabCreated, line 249: no limit exceeded -> handleUpdate.
afterDetect(place) == IF place = Null THEN "hu" ELSE "tc"

\* Line 268 without the "- 1".
batchPasses_whole(amountOfTabsCreated) == amountOfTabsCreated

\* handleTabCreated, line 268: the passes a batch leaves for its other tabs.
batchPasses(amountOfTabsCreated) == amountOfTabsCreated - 1

\* Line 257 with passes = 0 taking a pass as well.
afterGetPasses_atZero(passes) == IF passes >= 0 THEN "dec_passes" ELSE "alert"

\* Line 257 with the last pass not honoured.
afterGetPasses_offByOne(passes) == IF passes > 1 THEN "dec_passes" ELSE "alert"

\* handleTabCreated, line 257.
afterGetPasses(passes) == IF passes > 0 THEN "dec_passes" ELSE "alert"

\* handleTabCreated, lines 266 and 271: handleUpdate follows handleExceedTabs.
afterExceed == "utc_query"

\* Line 227 with the defaults written as keys of their own.
installUpdates_flat == DEFAULT_OPTIONS

\* handleInstalled, line 227: what is written to the sync area.
installUpdates == [defaultOptions |-> DEFAULT_OPTIONS]

\* Lines 229-231, 239-241, 273-275 and 284-286 with the error thrown again.
handlerCatch_rethrows(kind) == "thrown"

\* The catch of each entry point (lines 229-231, 239-241, 273-275 and
\* 284-286): the error is logged and the handler returns.
handlerCatch(kind) == "done"

\* handleInstalled, line 227; a rejected write skips handleUpdate.
SetDefaults(i, m) ==
  /\ StepOK(i, m) /\ inflight[i].pc = "set_defaults"
  /\ \E ok \in Outcomes(m) :
       /\ sync' = IF ok THEN StorageSet(sync, installUpdates) ELSE sync
       /\ inflight' = Arrange(m,
            IF ok THEN [inflight EXCEPT ![i].pc = "utc_query", ![i].ret = "hu"]
            ELSE [inflight EXCEPT ![i].ioFailed = TRUE,
                                  ![i].pc = handlerCatch(inflight[i].kind)])
  /\ UNCHANGED <<twin, winTabs, winPinned, currentWindow, session, badge, events, hist>>

\* A promise that has not settled and never will.
Pending == "pending"

\* part_001, lines 180-185: the promise resolves with "window" when the
\* window holds more than maxWindow tabs; on every other path the executor
\* returns without calling res and nothing else holds res.
variantDetectTooManyTabsInWindow(options, len) ==
  IF JsLt(options.maxWindow, 1) THEN Pending
  ELSE IF JsGt(len, options.maxWindow) THEN "window" ELSE Pending

\* part_001, lines 187-192.
variantDetectTooManyTabsInTotal(options, len) ==
  IF JsLt(options.maxTotal, 1) THEN Pending
  ELSE IF JsGt(len, options.maxTotal) THEN "total" ELSE Pending

\* part_001, lines 258-261: Promise.race settles as the first of its
\* promises that settles does, and stays pending while none has; the order
\* in which two query callbacks run is the browser's.
PromiseRace(results) ==
  IF results \subseteq {Pending} THEN {Pending} ELSE results \ {Pending}

\* The scope handleTabCreated gets from its detection.
detectedPlaces(m, options, windowLen, totalLen) ==
  IF m.variant
  THEN PromiseRace({variantDetectTooManyTabsInWindow(options, windowLen),
                    variantDetectTooManyTabsInTotal(options, totalLen)})
  ELSE {detectTabLimitExceeded(options, windowLen, totalLen)}

\* part_001, line 258: handleTabCreated goes on when the race has settled.
afterRace(place) == IF place = Pending THEN "race" ELSE "utc_query"

\* handleTabCreated, lines 246-252.  tabQuery has no catch of its own: a
\* rejected chrome.tabs.query rejects detectTabLimitExceeded and reaches the
\* catch of handleTabCreated.
Detect(i, m) ==
  /\ StepOK(i, m) /\ inflight[i].pc = "detect"
  /\ \E ok \in Outcomes(m), queried \in Outcomes(m) :
     LET options == getOptionsResult(ok)
         windowLen == tabQuery(options, InWindow)
         totalLen == tabQuery(options, Everywhere)
     IN  \E place \in detectedPlaces(m, options, windowLen, totalLen) :
         inflight' = Arrange(m,
           IF queried
           THEN [inflight EXCEPT ![i].options = options,
                                 ![i].optionsOk = ok,
                                 ![i].ioFailed = ~ok,
                                 ![i].windowLen = windowLen,
                                 ![i].totalLen = totalLen,
                                 ![i].place = place,
                                 ![i].detectWin = IF place = "window"
                                                  THEN currentWindow ELSE 0,
                                 ![i].ret = afterDetect(place),
                                 ![i].pc = afterRace(place)]
           ELSE [inflight EXCEPT ![i].options = options,
                                 ![i].optionsOk = ok,
                                 ![i].ioFailed = TRUE,
                                 ![i].queryFailed = TRUE,
                                 ![i].pc = handlerCatch(inflight[i].kind)])
  /\ UNCHANGED <<twin, winTabs, winPinned, currentWindow, session, sync, badge, events, hist>>

\* updateTabCount, lines 136-139: the value returned from its catch.
updateTabCountCaught == 0

\* updateTabCount, line 118; a rejected query ends updateTabCount in its
\* catch.
UtcQuery(i, m) ==
  /\ StepOK(i, m) /\ inflight[i].pc = "utc_query"
  /\ \E ok \in Outcomes(m) :
     LET h == inflight[i] IN
       inflight' = Arrange(m,
         IF ok
         THEN [inflight EXCEPT ![i].len = chromeTabsQuery(Everywhere),
                               ![i].windowLen = 0, ![i].totalLen = 0,
                               ![i].pc = "utc_get"]
         ELSE [inflight EXCEPT ![i].windowLen = 0, ![i].totalLen = 0,
                               ![i].ioFailed = TRUE,
                               ![i].delta = IF h.ret = "tc"
                                            THEN updateTabCountCaught ELSE @,
                               ![i].pc = afterUpdateTabCount(h.ret)])
  /\ UNCHANGED <<twin, winTabs, winPinned, currentWindow, session, sync, badge, events, hist>>

\* getSessionState, lines 30-47: a rejected read gives the defaults.
getSessionStateResult(ok) == IF ok THEN getSessionState ELSE SESSION_DEFAULTS

\* updateSessionState, lines 49-55: a rejected write is logged and dropped.
updateSessionState(ok, updates) ==
  IF ok THEN StorageSet(session, updates) ELSE session

\* Line 121 never true: the counters are written on every call.
countUnchanged_never(len, tabCount) == FALSE

\* updateTabCount, line 121: the count is the one already stored.
countUnchanged(len, tabCount) == len = tabCount

\* updateTabCount, lines 119-127.
UtcGet(i, m) ==
  /\ StepOK(i, m) /\ inflight[i].pc = "utc_get"
  /\ \E ok \in Outcomes(m) :
     LET h == inflight[i]
         state == getSessionStateResult(ok)
     IN  inflight' = Arrange(m,
           IF countUnchanged(h.len, state.tabCount)
           THEN [inflight EXCEPT
                   ![i].len = 0,
                   ![i].ioFailed = @ \/ ~ok,
                   ![i].delta = IF h.ret = "tc" THEN state.amountOfTabsCreated ELSE @,
                   ![i].deltaKnown = /\ h.ret = "tc" /\ ok
                                     /\ state.previousTabCount # -1,
                   ![i].pc = afterUpdateTabCount(h.ret)]
           ELSE [inflight EXCEPT
                   ![i].len = 0,
                   ![i].ioFailed = @ \/ ~ok,
                   ![i].previousTabCount = state.tabCount,
                   ![i].tabCount = h.len,
                   ![i].amount = amountOfTabsCreatedOf(state.tabCount, h.len),
                   ![i].pc = "utc_set"])
  /\ UNCHANGED <<twin, winTabs, winPinned, currentWindow, session, sync, badge, events, hist>>

\* Lines 129-133 with the two counts stored under each other's key.
countUpdates_swapped(previousTabCount, tabCount, amountOfTabsCreated) ==
  [ previousTabCount |-> tabCount,
    tabCount |-> previousTabCount,
    amountOfTabsCreated |-> amountOfTabsCreated ]

\* Lines 129-133 with the delta left out of the write.
countUpdates_noAmount(previousTabCount, tabCount, amountOfTabsCreated) ==
  [ previousTabCount |-> previousTabCount,
    tabCount |-> tabCount ]

\* updateTabCount, lines 129-133: the keys it writes.
countUpdates(previousTabCount, tabCount, amountOfTabsCreated) ==
  [ previousTabCount |-> previousTabCount,
    tabCount |-> tabCount,
    amountOfTabsCreated |-> amountOfTabsCreated ]

\* updateTabCount, lines 129-135.
UtcSet(i, m) ==
  /\ StepOK(i, m) /\ inflight[i].pc = "utc_set"
  /\ \E ok \in Outcomes(m) :
     LET h == inflight[i] IN
       /\ session' = updateSessionState(ok,
                       countUpdates(h.previousTabCount, h.tabCount, h.amount))
       /\ inflight' = Arrange(m, [inflight EXCEPT
                         ![i].delta = IF h.ret = "tc" THEN h.amount ELSE @,
                         ![i].ioFailed = @ \/ ~ok,
                         ![i].wroteCount = (h.ret = "tc"),
                         ![i].firstObs = (h.ret = "tc" /\ h.previousTabCount = -1),
                         ![i].deltaKnown = (h.ret = "tc" /\ h.previousTabCount # -1),
                         ![i].previousTabCount = 0, ![i].tabCount = 0,
                         ![i].amount = 0,
                         ![i].pc = afterUpdateTabCount(h.ret)])
  /\ UNCHANGED <<twin, winTabs, winPinned, currentWindow, sync, badge, events, hist>>

\* handleTabCreated, lines 255-257.
GetPasses(i, m) ==
  /\ StepOK(i, m) /\ inflight[i].pc = "get_passes"
  /\ \E ok \in Outcomes(m) :
     LET passes == getSessionStateResult(ok).passes
         b == hist.batch
         b2 == IF b.d > 0
               THEN [b EXCEPT !.seen = @ + 1,
                              !.supp = IF passes > 0 THEN @ + 1 ELSE @]
               ELSE b
     IN  /\ inflight' = Arrange(m, [inflight EXCEPT ![i].passes = passes,
                                         ![i].ioFailed = @ \/ ~ok,
                                         ![i].ctx = IF m.seq THEN b2 ELSE @,
                                         ![i].pc = afterGetPasses(passes)])
         /\ hist' = Observe(m, [hist EXCEPT !.batch = b2])
  /\ UNCHANGED <<twin, winTabs, winPinned, currentWindow, session, sync, badge, events>>

\* handleTabCreated, lines 258-259.
DecPasses(i, m) ==
  /\ StepOK(i, m) /\ inflight[i].pc = "dec_passes"
  /\ \E ok \in Outcomes(m) :
     LET h == inflight[i] IN
       /\ session' = updateSessionState(ok, [passes |-> h.passes - 1])
       /\ inflight' = Arrange(m, [inflight EXCEPT
                         ![i].wrotePasses = IF ok THEN h.passes - 1 ELSE @,
                         ![i].ioFailed = @ \/ ~ok,
                         ![i].pc = "done"])
  /\ UNCHANGED <<twin, winTabs, winPinned, currentWindow, sync, badge, events, hist>>

\* The tokens an alert message is rendered with here: the four named ones,
\* every key of the options and one that is no key.
Tokens == {"place", "which", "maxPlace", "maxWhich", "foo"} \cup DOMAIN DEFAULT_OPTIONS

\* capitalizeFirstLetter, lines 170-172, on the two places.
capitalizeFirstLetter(string) ==
  CASE string = "window" -> "Window" [] string = "total" -> "Total"

\* JavaScript's falsy values among the values of the options: false, 0,
\* NaN and the empty string.
Falsy(key, value) ==
  CASE key \in {"maxTotal", "maxWindow"} -> value = 0 \/ value = NaN
    [] key = "alertMessage" -> value = ""
    [] OTHER -> ~value

\* The text String.prototype.replace inserts for a value the replacer returns.
ValueToString(key, value) ==
  CASE key \in {"maxTotal", "maxWindow"} -> NumberToString(value)
    [] key = "alertMessage" -> value
    [] OTHER -> IF value THEN "true" ELSE "false"

\* displayAlert, lines 177-188: the text that replaces the token p1.
replacer(options, place, p1) ==
  CASE p1 \in {"place", "which"} ->
         IF place = "window" THEN "one window" ELSE "total"
    [] p1 \in {"maxPlace", "maxWhich"} ->
         LET key == "max" \o capitalizeFirstLetter(place)
         IN  ValueToString(key, options[key])
    [] OTHER ->
         IF p1 \in DOMAIN options /\ ~Falsy(p1, options[p1])
         THEN ValueToString(p1, options[p1])
         ELSE "?"

\* handleTabCreated, line 262, and displayAlert: a notification is requested
\* when options.displayAlert is set.
Alert(i, m) ==
  /\ StepOK(i, m) /\ inflight[i].pc = "alert"
  /\ \E ok \in Outcomes(m) :
     LET h == inflight[i]
         notify == h.options.displayAlert
     IN  /\ inflight' = Arrange(m, [inflight EXCEPT ![i].alerted = notify,
                              ![i].replaced = IF notify
                                THEN [t \in Tokens |-> replacer(h.options, h.place, t)]
                                ELSE @,
                              ![i].pc = afterNotify(ok \/ ~notify, afterAlert(h.delta))])
         /\ hist' = IF notify
                    THEN Observe(m, [hist EXCEPT
                           !.alerts = @ + 1,
                           !.batch.alerts = IF hist.batch.d > 0 THEN @ + 1 ELSE @])
                    ELSE hist
  /\ UNCHANGED <<twin, winTabs, winPinned, currentWindow, session, sync, badge, events>>

\* handleTabCreated, line 268.
SetPasses(i, m) ==
  /\ StepOK(i, m) /\ inflight[i].pc = "set_passes"
  /\ \E ok \in Outcomes(m) :
     LET h == inflight[i]
         state == getSessionState
         now == chromeTabsQuery(Everywhere)
     IN
       /\ session' = updateSessionState(ok, [passes |-> batchPasses(h.delta)])
       /\ inflight' = Arrange(m, [inflight EXCEPT
                         ![i].wrotePasses = IF ok THEN batchPasses(h.delta) ELSE @,
                         ![i].ioFailed = @ \/ ~ok,
                         ![i].pc = "done"])
       /\ hist' = Observe(m, [hist EXCEPT !.batch =
            [ d |-> h.delta, prev |-> state.previousTabCount, cnt |-> state.tabCount,
              fresh |-> h.wroteCount, seen |-> 0, supp |-> 0,
              alerts |-> IF h.alerted THEN 1 ELSE 0, acts |-> 0,
              newTabs |-> IF now > state.tabCount THEN now - state.tabCount ELSE 0,
              removed |-> IF now < state.tabCount THEN state.tabCount - now ELSE 0 ]])
  /\ UNCHANGED <<twin, winTabs, winPinned, currentWindow, sync, badge, events>>

\* handleExceedTabs (lines 210-220), called at lines 265 and 270.  A tab that
\* is already closed makes the chrome call reject; a rejected call is caught
\* and nothing happens to the tab.
\* Removing the tab fires tabs.onRemoved and moving it to a new focused
\* window fires windows.onFocusChanged: both dispatch handleUpdate.
Exceed(i, m) ==
  /\ StepOK(i, m) /\ inflight[i].pc = "exceed"
  /\ \E ok \in Outcomes(m) :
     LET h == inflight[i]
         act == exceedAction(h.options, h.place)
         free == {w \in Windows : ~WindowOpen(w)}
         new == CHOOSE w \in free : \A v \in free : w <= v
         moved == [inflight EXCEPT ![i].acted = IF ok THEN act ELSE "failed",
                                   ![i].ret = "hu",
                                   ![i].pc = afterExceed]
         gone == ~h.tab.alive \/ ~ok
     IN  /\ (act = "relocate" /\ ~gone) => free # {}
         /\ winTabs' =
              IF gone THEN winTabs
              ELSE IF act = "remove" THEN [winTabs EXCEPT ![h.tab.win] = @ - 1]
              ELSE [winTabs EXCEPT ![h.tab.win] = @ - 1, ![new] = @ + 1]
         /\ currentWindow' =
              IF ~gone /\ act = "relocate" THEN new ELSE currentWindow
         /\ inflight' = Arrange(m,
              IF gone THEN moved
              ELSE IF act = "remove"
              THEN DispatchUpdate(m, [moved EXCEPT ![i].tab.alive = FALSE])
              ELSE DispatchUpdate(m, [moved EXCEPT ![i].tab.win = new]))
         /\ hist' = IF ok
                    THEN Observe(m, [hist EXCEPT
                           !.acts = @ + 1,
                           !.batch.acts = IF hist.batch.d > 0 THEN @ + 1 ELSE @])
                    ELSE hist
  /\ UNCHANGED <<twin, winPinned, session, sync, badge, events>>

\* handleUpdate, lines 237-238, and updateBadge: the badge text is "" when
\* displayBadge is off, else the smaller of the two remaining counts.
badgeText(options) ==
  IF ~options.displayBadge THEN ""
  ELSE NumberToString(Min(windowRemaining(options), totalRemaining(options)))

\* A rejected query or setBadgeText ends updateBadge in its catch (lines
\* 108-110) and the badge keeps its text.
Badge(i, m) ==
  /\ StepOK(i, m) /\ inflight[i].pc = "badge"
  /\ \E ok \in Outcomes(m), shown \in Outcomes(m) :
       /\ badge' = IF shown THEN badgeText(getOptionsResult(ok)) ELSE badge
       /\ inflight' = Arrange(m, [inflight EXCEPT
                         ![i].refreshed = shown,
                         ![i].badgeOptions = getOptionsResult(ok),
                         ![i].pc = "done"])
  /\ UNCHANGED <<twin, winTabs, winPinned, currentWindow, session, sync, events, hist>>

\* The listener's promise settles; the invocation is gone.
Return(i, m) ==
  /\ i \in Idx /\ inflight[i].pc = "done"
  /\ inflight' = Arrange(m, RemoveAt(inflight, i))
  /\ UNCHANGED <<twin, winTabs, winPinned, currentWindow, session, sync, badge, events, hist>>

(* --------------------------- specifications ---------------------------- *)
TabSteps(i, m) ==
  \/ Detect(i, m)
  \/ UtcQuery(i, m)
  \/ UtcGet(i, m)
  \/ UtcSet(i, m)
  \/ GetPasses(i, m)
  \/ DecPasses(i, m)
  \/ Alert(i, m)
  \/ SetPasses(i, m)
  \/ Exceed(i, m)
  \/ Badge(i, m)
  \/ Return(i, m)

\* Places in the sequence of invocations: the start-up pass, one per browser
\* event and one per event a handler causes.
Slots == 1..(1 + 2 * (MaxEvents + 1))

\* Spec: every browser event, every interleaving.
Next ==
  \/ \E w \in Windows : CreateTab(w, ConcMode)
  \/ \E w \in Windows : RemoveTab(w, ConcMode)
  \/ \E i \in Slots : RemovePendingTab(i, ConcMode)
  \/ \E w \in Windows : UpdateTab(w, ConcMode)
  \/ \E w \in Windows : FocusChanged(w, ConcMode)
  \/ Installed(ConcMode)
  \/ \E i \in Slots : SetDefaults(i, ConcMode)
  \/ \E i \in Slots : TabSteps(i, ConcMode)

\* SpecSeq: tabs appear and disappear in the focused window and the
\* extension may be updated; the oldest invocation runs to its end before
\* the next one starts.
NextSeq ==
  \/ CreateTab(currentWindow, SeqMode)
  \/ RemoveTab(currentWindow, SeqMode)
  \/ Installed(SeqMode)
  \/ SetDefaults(1, SeqMode)
  \/ TabSteps(1, SeqMode)

Spec == Init /\ [][Next]_vars

SpecSeq == InitSeq /\ [][NextSeq]_vars

\* SpecFail: as SpecSeq from a small inventory, and a read of the sync area
\* may reject.
NextFail ==
  \/ CreateTab(currentWindow, FailMode)
  \/ Installed(FailMode)
  \/ SetDefaults(1, FailMode)
  \/ TabSteps(1, FailMode)

SpecFail == InitFail /\ [][NextFail]_vars

\* SpecRace: two tabs open, at most two allowed; tabs are created in the
\* focused window and their handlers interleave in every way.
InitRace ==
  InitWith({InitTabs}, {0},
           Overrides({{InitTabs}}, {{0}}, {{}}, {{}, {FALSE}}, {{}}, {{}}))

NextRace ==
  \/ CreateTab(currentWindow, RaceMode)
  \/ \E i \in Slots : TabSteps(i, RaceMode)

SpecRace == InitRace /\ [][NextRace]_vars

\* SpecVariant: the service worker of src/unnamed/part_001, which differs
\* from background.js in its limit detection (and in having no catch, which
\* shows only when a chrome call rejects); two tabs open, the total limit
\* at its default or at two.
InitVariant ==
  InitWith({InitTabs}, {0},
           Overrides({{}, {InitTabs}}, {{}}, {{}}, {{}}, {{}}, {{}}))

NextVariant ==
  \/ CreateTab(currentWindow, VariantMode)
  \/ \E i \in Slots : TabSteps(i, VariantMode)

SpecVariant == InitVariant /\ [][NextVariant]_vars

(* --------------------- two workers, the same events -------------------- *)
\* SpecTwin and SpecAlert run two copies of the worker, a and b, each with
\* its own browser and session area, and feed both the same events: a tab
\* is created in both, and the handler of the oldest unhandled tab runs in
\* both.  Here a handler runs in one piece.  Each copy is a record: its
\* options, its number of open tabs (one window, none pinned), its session
\* area, the tabs it closed, the notifications it requested and how many of
\* these requests were rejected, whether its start-up pass is still to run
\* and whether it is torn down.

\* updateTabCount in one piece: the new session area and the value returned.
runUpdateTabCount(w) ==
  LET state == StorageGet(w.session, SESSION_DEFAULTS)
      amount == amountOfTabsCreatedOf(state.tabCount, w.tabs)
  IN  IF w.tabs = state.tabCount
      THEN [session |-> w.session, ret |-> state.amountOfTabsCreated]
      ELSE [session |-> StorageSet(w.session,
                          [previousTabCount |-> state.tabCount,
                           tabCount |-> w.tabs,
                           amountOfTabsCreated |-> amount]),
            ret |-> amount]

\* handleUpdate in one piece (the badge is not part of a copy).
runHandleUpdate(w) == [w EXCEPT !.session = runUpdateTabCount(w).session]

\* handleExceedTabs with exceedTabNewWindow off, the handleUpdate that
\* follows it and the handleUpdate of tabs.onRemoved.
runHandleExceedTabs(w, tab) ==
  runHandleUpdate(runHandleUpdate([w EXCEPT !.tabs = @ - 1,
                                            !.closed = @ \cup {tab}]))

\* handleTabCreated in one piece; ok: notifications.create resolves.
runHandleTabCreated(w, tab, ok) ==
  LET place == detectTabLimitExceeded(w.options, w.tabs, w.tabs)
      u == runUpdateTabCount(w)
      counted == [w EXCEPT !.session = u.session]
      passes == StorageGet(counted.session, SESSION_DEFAULTS).passes
      notify == w.options.displayAlert
      alerted == [counted EXCEPT
                    !.alerts = IF notify THEN @ + 1 ELSE @,
                    !.failed = IF notify /\ ~ok THEN @ + 1 ELSE @]
      next == afterNotify(ok \/ ~notify, afterAlert(u.ret))
  IN  IF place = Null THEN runHandleUpdate(w)
      ELSE IF afterGetPasses(passes) = "dec_passes"
      THEN [counted EXCEPT !.session = StorageSet(@, [passes |-> passes - 1])]
      ELSE IF next = "exceed" THEN runHandleExceedTabs(alerted, tab)
      ELSE IF next = "set_passes"
      THEN [alerted EXCEPT
              !.session = StorageSet(@, [passes |-> batchPasses(u.ret)])]
      ELSE alerted

\* A copy of the worker at its first start.
NewWorker(options) ==
  [ options |-> options, tabs |-> InitTabs, session |-> [k \in {} |-> 0],
    closed |-> {}, alerts |-> 0, failed |-> 0, boot |-> TRUE, down |-> FALSE ]

\* An event reaches the worker: a torn-down worker is started again, which
\* evaluates the script (lines 21-25 and the start-up pass of 281-287).
Wake(w) == IF w.down THEN [w EXCEPT !.down = FALSE, !.boot = TRUE] ELSE w

\* The start-up pass of a copy that still has to run it.
Boot(w) == IF w.boot THEN [runHandleUpdate(w) EXCEPT !.boot = FALSE] ELSE w

\* The options of a copy: the total limit is set, the window limit is off.
TwinOptions(maxTotal, alert) ==
  [DEFAULT_OPTIONS EXCEPT !.maxTotal = maxTotal, !.maxWindow = 0,
                          !.displayAlert = alert]

\* The one-worker variables are not used by the two-worker specifications.
InitTwinWith(pairs) ==
  /\ winTabs = [w \in Windows |-> 0]
  /\ winPinned = [w \in Windows |-> 0]
  /\ currentWindow = 1
  /\ session = [k \in {} |-> 0]
  /\ sync = [k \in {} |-> 0]
  /\ badge = ""
  /\ inflight = <<>>
  /\ events = [created |-> 0, other |-> 0]
  /\ hist = [alerts |-> 0, acts |-> 0, pure |-> TRUE, burst |-> TRUE,
             settled |-> FALSE, batch |-> NoBatch]
  /\ \E mt \in {InitTabs, InitTabs + 1}, pair \in pairs :
       twin = [ a |-> NewWorker(TwinOptions(mt, pair[1])),
                b |-> NewWorker(TwinOptions(mt, pair[2])),
                pending |-> <<>>, created |-> 0, teardowns |-> 0 ]

\* SpecTwin: the copies have the same options.
InitTwin == InitTwinWith({<<TRUE, TRUE>>, <<FALSE, FALSE>>})

\* SpecAlert: the copies differ at most in displayAlert.
InitAlert == InitTwinWith(BOOLEAN \X BOOLEAN)

TwinUnchanged ==
  UNCHANGED <<winTabs, winPinned, currentWindow, session, sync, badge,
              inflight, events, hist>>

\* A tab is created in both browsers; tabs.onCreated waits for its handler.
TwinCreate ==
  /\ twin.created < MaxTwinTabs
  /\ twin' = [twin EXCEPT
       !.created = @ + 1,
       !.pending = Append(@, twin.created + 1),
       !.a = Wake([@ EXCEPT !.tabs = @ + 1]),
       !.b = Wake([@ EXCEPT !.tabs = @ + 1])]
  /\ TwinUnchanged

\* Copy a is idle (no handler running or waiting) and is torn down; its
\* session area stays.  Copy b is never torn down.
TwinTeardown ==
  /\ twin.teardowns < MaxTeardowns
  /\ ~twin.a.down /\ ~twin.a.boot /\ twin.pending = <<>>
  /\ twin' = [twin EXCEPT !.teardowns = @ + 1, !.a.down = TRUE]
  /\ TwinUnchanged

\* The start-up pass (lines 281-287) of every copy that was just started.
TwinStartup ==
  /\ twin.a.boot \/ twin.b.boot
  /\ twin' = [twin EXCEPT !.a = Boot(@), !.b = Boot(@)]
  /\ TwinUnchanged

\* The handler of the oldest unhandled tab runs in both copies.
TwinRunCreated ==
  /\ twin.pending # <<>>
  /\ \E oka, okb \in BOOLEAN :
       twin' = [twin EXCEPT
         !.pending = Tail(@),
         !.a = runHandleTabCreated(@, Head(twin.pending), oka),
         !.b = runHandleTabCreated(@, Head(twin.pending), okb)]
  /\ TwinUnchanged

NextTwin == TwinCreate \/ TwinTeardown \/ TwinStartup \/ TwinRunCreated

SpecTwin == InitTwin /\ [][NextTwin]_vars

NextAlert == TwinCreate \/ TwinStartup \/ TwinRunCreated

SpecAlert == InitAlert /\ [][NextAlert]_vars

\* Nothing is running or waiting in either copy.
TwinQuiet ==
  /\ twin.pending = <<>>
  /\ ~twin.a.boot /\ ~twin.b.boot /\ ~twin.a.down

passesOf(w) == StorageGet(w.session, SESSION_DEFAULTS).passes

(* ------------------- SessionState of the test-suite ------------------- *)
\* src/tests/background.test.js, lines 85-123: the SessionState object whose
\* incrementPasses and decrementPasses the tests exercise.  SpecPasses runs
\* one script on the session area: incrementPasses(amount), then
\* decrementPasses() as many times.

\* Line 108 adding one whatever the amount.
incrementedPasses_one(passes, amount) == passes + 1

\* incrementPasses, line 108.
incrementedPasses(passes, amount) == passes + amount

\* decrementPasses, line 115: Math.max(0, passes - 1).
decrementedPasses(passes) == IF passes - 1 > 0 THEN passes - 1 ELSE 0

\* SessionState.get, lines 86-92.
SessionStateGet == StorageGet(session, SESSION_DEFAULTS)

InitPasses ==
  /\ winTabs = [w \in Windows |-> 0]
  /\ winPinned = [w \in Windows |-> 0]
  /\ currentWindow = 1
  /\ session \in {[k \in {} |-> 0]}
                   \cup {[passes |-> p] : p \in 0..MaxPasses}
                   \cup {[passes |-> p, tabCount |-> InitTabs] : p \in 0..MaxPasses}
  /\ sync = [k \in {} |-> 0]
  /\ badge = ""
  /\ \E n \in 0..MaxAmount :
       inflight = <<[ kind |-> "script", pc |-> "increment", amount |-> n,
                      left |-> n, before |-> SessionStateGet.passes,
                      incremented |-> -1, ret |-> -1 ]>>
  /\ events = [created |-> 0, other |-> 0]
  /\ hist = [alerts |-> 0, acts |-> 0, pure |-> TRUE, burst |-> TRUE,
             settled |-> FALSE, batch |-> NoBatch]
  /\ twin = NoTwin

PassesUnchanged ==
  UNCHANGED <<winTabs, winPinned, currentWindow, sync, badge, events, hist, twin>>

\* SessionState.incrementPasses, lines 106-111.
IncrementPasses ==
  /\ inflight[1].pc = "increment"
  /\ LET h == inflight[1]
         newPasses == incrementedPasses(SessionStateGet.passes, h.amount)
     IN  /\ session' = StorageSet(session, [passes |-> newPasses])
         /\ inflight' = <<[h EXCEPT !.incremented = newPasses, !.ret = newPasses,
                                    !.pc = IF h.left > 0 THEN "decrement" ELSE "end"]>>
  /\ PassesUnchanged

\* SessionState.decrementPasses, lines 113-118.
DecrementPasses ==
  /\ inflight[1].pc = "decrement"
  /\ LET h == inflight[1]
         newPasses == decrementedPasses(SessionStateGet.passes)
     IN  /\ session' = StorageSet(session, [passes |-> newPasses])
         /\ inflight' = <<[h EXCEPT !.ret = newPasses, !.left = @ - 1,
                                    !.pc = IF h.left > 1 THEN "decrement" ELSE "end"]>>
  /\ PassesUnchanged

NextPasses == IncrementPasses \/ DecrementPasses

SpecPasses == InitPasses /\ [][NextPasses]_vars

(* ------------------------------ properties ----------------------------- *)
\* A tab-created invocation that found a limit exceeded.
Exceeded(h) == h.kind = "created" /\ h.place # Null

\* A tab-created invocation between its detection and its tab count.
Detected(h) == h.kind = "created" /\ h.pc = "utc_query" /\ h.acted = "none"

WindowExceeded(h) == h.options.maxWindow >= 1 /\ h.windowLen > h.options.maxWindow
TotalExceeded(h) == h.options.maxTotal >= 1 /\ h.totalLen > h.options.maxTotal

C2_SuppressedEventOnlyDecrements ==
  \A i \in Idx :
    LET h == inflight[i] IN
      (Exceeded(h) /\ h.passes > 0) =>
        /\ h.pc \in {"dec_passes", "done"}
        /\ h.acted = "none" /\ ~h.alerted /\ ~h.refreshed
        /\ h.pc = "done" =>
             (h.wrotePasses = h.passes - 1 /\ getSessionState.passes = h.passes - 1)

\* C2 happens: an invocation with alerts switched on read passes > 0 and
\* returned.
C2_Witness ==
  \E i \in Idx :
    LET h == inflight[i] IN
      /\ Exceeded(h) /\ h.passes > 0 /\ h.pc = "done"
      /\ h.options.displayAlert /\ getSessionState.passes = h.passes - 1

\* No invocation is between its first step and its return.
Quiet == \A i \in Idx : Unstarted(inflight[i])

\* Nothing but the handlers' own work happened to the tabs since the batch.
Stable(b) == b.newTabs = 0 /\ b.removed = 0

\* The batch scenario: with 10 tabs counted, 5 tabs appeared and the first
\* of their handlers counted 15; nothing else happened since.
BatchOfFive ==
  LET b == hist.batch IN
    /\ hist.pure /\ b.d = 5 /\ b.fresh /\ b.prev = BatchStartTabs
    /\ b.cnt = BatchStartTabs + 5 /\ Stable(b)

C4_OneAlertForBatchOfFive ==
  LET b == hist.batch IN
    (BatchOfFive /\ getOptions.displayAlert) =>
      /\ b.alerts = 1 /\ hist.alerts = 1
      /\ b.seen <= 4 /\ b.supp = b.seen
      /\ Quiet => getSessionState.passes = 4 - b.seen

\* C4 happens: the five events of the batch have been handled.
C4_Witness ==
  /\ BatchOfFive /\ getOptions.displayAlert
  /\ hist.batch.seen = 4 /\ inflight = <<>>
  /\ getSessionState.passes = 0 /\ hist.alerts = 1

C6_BatchEnforcedOnce ==
  (BatchOfFive /\ hist.batch.seen = 4 /\ Quiet) => hist.acts = 1

C8_ExceededIffEnabledAndAbove ==
  \A i \in Idx :
    LET h == inflight[i]
        w == detectTooManyTabsInWindow(h.options, h.windowLen)
        t == detectTooManyTabsInTotal(h.options, h.totalLen)
    IN  Detected(h) =>
          /\ w = (IF WindowExceeded(h) THEN "window" ELSE Null)
          /\ t = (IF TotalExceeded(h) THEN "total" ELSE Null)
          /\ (h.options.maxWindow < 1 /\ h.options.maxTotal < 1) => h.place = Null
          /\ h.place \in {w, t}

\* C8 happens: an invocation counted exactly maxWindow tabs in its window
\* (not exceeded) while the total was above maxTotal.
C8_Witness ==
  \E i \in Idx :
    LET h == inflight[i] IN
      /\ Detected(h) /\ h.options.maxWindow >= 1
      /\ h.windowLen = h.options.maxWindow
      /\ TotalExceeded(h) /\ h.place = "total"

\* C9: the place a tab-created invocation detects is "window" whenever the
\* window limit is exceeded, whatever the total; otherwise "total" when the
\* total limit is exceeded; otherwise none.
C9_WindowBeforeTotal ==
  \A i \in Idx :
    LET h == inflight[i] IN
      Detected(h) =>
        h.place = (IF WindowExceeded(h) THEN "window"
                   ELSE IF TotalExceeded(h) THEN "total"
                   ELSE Null)

\* C9 happens: both limits were exceeded and the place is "window".
C9_Witness ==
  \E i \in Idx :
    LET h == inflight[i] IN
      Detected(h) /\ WindowExceeded(h) /\ TotalExceeded(h) /\ h.place = "window"

\* C10: an invocation that called handleExceedTabs made one chrome call for
\* its tab: windows.create (relocation) if and only if exceedTabNewWindow is
\* set and the place is "window", tabs.remove in every other case; a
\* removed tab is gone, a relocated one is still open.
C10_RelocateIffWindowAndOption ==
  \A i \in Idx :
    LET h == inflight[i] IN
      h.acted # "none" =>
        /\ h.acted \in {"relocate", "remove"}
        /\ h.acted = "relocate" <=> (h.options.exceedTabNewWindow /\ h.place = "window")
        /\ h.acted = "remove" => ~h.tab.alive

\* C10 happens: exceedTabNewWindow is set, the place is "total", and the
\* tab was removed.
C10_Witness ==
  \E i \in Idx :
    LET h == inflight[i] IN
      h.options.exceedTabNewWindow /\ h.place = "total" /\ h.acted = "remove"

\* C11: a tab-created invocation that found a limit exceeded and whose
\* updateTabCount was the first observation of the tab count (it read
\* tabCount = -1) gets the delta 0 and makes no close/relocate call; when it
\* reads passes = 0 it goes on to the alert and returns without writing
\* passes (the stored passes stays as it is).
C11_FirstObservationNeverEnforces ==
  \A i \in Idx :
    LET h == inflight[i] IN
      (Exceeded(h) /\ h.firstObs) =>
        /\ h.delta = 0
        /\ h.acted = "none"
        /\ h.pc \in {"get_passes", "dec_passes", "alert", "done"}
        /\ h.passes = 0 => h.wrotePasses = -1

\* C11 happens: with tabs above the limit, a tab-created invocation counted
\* the tabs before the start-up pass had stored a count, and returned.
C11_Witness ==
  \E i \in Idx :
    LET h == inflight[i] IN
      /\ Exceeded(h) /\ h.firstObs /\ h.pc = "done" /\ h.passes = 0
      /\ h.tab.alive /\ "passes" \notin DOMAIN session

\* C12: the stored passes is never negative, whatever handlers ran and
\* however they interleaved; no invocation takes a pass when it read
\* passes = 0, and none stores a negative passes.
C12_PassesNeverNegative ==
  /\ getSessionState.passes >= 0
  /\ \A i \in Idx :
       LET h == inflight[i] IN
         /\ h.pc = "dec_passes" => h.passes > 0
         /\ h.wrotePasses >= -1
         /\ (h.pc = "done" /\ h.wrotePasses # -1) => h.wrotePasses >= 0

\* C12 happens: the last pass was taken, the stored passes is 0.
C12_Witness ==
  /\ "passes" \in DOMAIN session /\ session["passes"] = 0
  /\ \E i \in Idx : inflight[i].pc = "done" /\ inflight[i].passes = 1

\* An invocation of handleUpdate, of handleInstalled or of the start-up pass.
Refreshing(h) == h.kind \in {"update", "installed", "startup"}

C17_NoLimitOnlyRefreshes ==
  \A i \in Idx :
    LET h == inflight[i] IN
      (h.kind = "created" /\ h.pc # "detect" /\ h.place = Null) =>
        /\ h.pc \in {"utc_query", "utc_get", "utc_set", "badge", "done"}
        /\ h.acted = "none" /\ ~h.alerted /\ h.wrotePasses = -1
        /\ h.pc = "done" =>
             (h.refreshed /\ getSessionState.tabCount # -1)

\* C17 happens: a tab was created under the limits while passes were
\* stored, and its handler returned.
C17_Witness ==
  /\ getSessionState.passes > 0
  /\ \E i \in Idx :
       LET h == inflight[i] IN
         h.kind = "created" /\ h.place = Null /\ h.pc = "done" /\ h.refreshed

\* C14: when the handler of an install/update event returns, the session
\* counters are back at their defaults; in particular the stored passes is 0
\* whatever it was before the event.
C14_InstallResetsSession ==
  \A i \in Idx :
    (inflight[i].kind = "installed" /\ inflight[i].pc = "done") =>
      getSessionState.passes = 0

\* The six lifecycle events of the host.
LifecycleEvents ==
  {"tabs.onCreated", "tabs.onRemoved", "tabs.onUpdated",
   "windows.onFocusChanged", "runtime.onInstalled", "runtime.onStartup"}

\* The worker has started and none of its asynchronous operations has
\* completed: the start-up pass has still to take its first step.
AtStart ==
  TotalEvents = 0 /\ inflight = <<NewInvocation("startup", NoTab)>>

\* C15: when the worker has started and no asynchronous operation has
\* completed yet, each of the six lifecycle events has a registered listener.
C15_AllSixEventsRegistered ==
  AtStart => \A e \in LifecycleEvents : e \in DOMAIN Listeners

\* C20: no step changes, adds or removes a key of the sync area other than
\* defaultOptions: every option the user has saved keeps its value through
\* the install/update handler, and getOptions returns the same value for it
\* after the handler's write as before.
C20_InstallKeepsUserOptions ==
  [][ /\ DOMAIN sync' \subseteq (DOMAIN sync) \cup {"defaultOptions"}
      /\ \A k \in (DOMAIN sync) \ {"defaultOptions"} :
           /\ k \in DOMAIN sync' /\ sync'[k] = sync[k]
           /\ getOptions'[k] = sync[k] ]_vars

\* C20 happens: the install handler has written its snapshot while the user
\* had saved maxTotal and maxWindow.
C20_Witness ==
  /\ "defaultOptions" \in DOMAIN sync
  /\ {"maxTotal", "maxWindow", "exceedTabNewWindow"} \subseteq DOMAIN sync
  /\ sync["maxTotal"] # DEFAULT_OPTIONS.maxTotal
  /\ \E i \in Idx : inflight[i].kind = "installed" /\ inflight[i].pc = "done"

\* The base of the second read of getOptions: the stored snapshot, else the
\* compiled-in defaults.
OptionDefaults ==
  IF "defaultOptions" \in DOMAIN sync THEN sync["defaultOptions"] ELSE DEFAULT_OPTIONS

\* C19: the options a tab-created invocation got from getOptions have a
\* value for each of the seven keys: the stored value where the user saved
\* one and the default otherwise, and the compiled-in defaults when the read
\* was rejected; and the sync area is written by no step but the install
\* handler's (getOptions writes nothing).
C19_OptionsFullyPopulated ==
  /\ [](\A i \in Idx :
         LET h == inflight[i] IN
           Detected(h) =>
             /\ DOMAIN h.options =
                  {"maxTotal", "maxWindow", "exceedTabNewWindow", "displayAlert",
                   "countPinnedTabs", "displayBadge", "alertMessage"}
             /\ ~h.optionsOk => h.options = DEFAULT_OPTIONS
             /\ h.optionsOk =>
                  \A k \in DOMAIN h.options :
                    h.options[k] = IF k \in DOMAIN sync THEN sync[k]
                                   ELSE OptionDefaults[k])
  /\ [][sync' # sync => \E i \in Idx : inflight[i].pc = "set_defaults"]_vars

\* C19 happens: with maxTotal saved by the user and an older snapshot
\* stored, one read was rejected: the invocation works with the defaults.
C19_Witness ==
  \E i \in Idx :
    LET h == inflight[i] IN
      /\ Detected(h) /\ ~h.optionsOk /\ h.options = DEFAULT_OPTIONS
      /\ "maxTotal" \in DOMAIN sync /\ "defaultOptions" \in DOMAIN sync
      /\ sync["defaultOptions"] # DEFAULT_OPTIONS

\* C13: tearing the worker down while it is idle and starting it again on
\* the next event changes nothing: once every handler has run, the copy that
\* was torn down has closed the same tabs, requested as many notifications
\* and stored the same passes as the copy that was never torn down.
C13_TeardownTransparent ==
  TwinQuiet =>
    /\ twin.a.closed = twin.b.closed
    /\ twin.a.alerts = twin.b.alerts
    /\ passesOf(twin.a) = passesOf(twin.b)

\* C18: two copies that differ at most in displayAlert and in the outcome
\* of each notification request always have closed the same tabs and hold
\* the same session state, and a copy with displayAlert off has requested
\* no notification.
C18_AlertsDoNotSteer ==
  /\ twin # NoTwin =>
       /\ twin.a.closed = twin.b.closed
       /\ twin.a.tabs = twin.b.tabs
       /\ StorageGet(twin.a.session, SESSION_DEFAULTS)
            = StorageGet(twin.b.session, SESSION_DEFAULTS)
       /\ \A w \in {twin.a, twin.b} : ~w.options.displayAlert => w.alerts = 0

\* The copies differ in displayAlert, the one with alerts on has requested
\* a notification that was rejected, and the other one has closed a tab.
C18_Witness ==
  /\ twin # NoTwin
  /\ twin.a.options.displayAlert /\ ~twin.b.options.displayAlert
  /\ twin.a.alerts > 0 /\ twin.a.failed > 0
  /\ twin.b.closed # {}
  /\ twin.pending = <<>>

\* C21: whatever chrome calls reject, no invocation of handleTabCreated,
\* handleUpdate, handleInstalled or the start-up pass ends with an error
\* thrown to its caller, and the oldest invocation always has a next step
\* until it has returned.
C21_NoPropagatedError ==
  /\ \A i \in Idx : inflight[i].pc # "thrown"
  /\ inflight # <<>> => ENABLED (SetDefaults(1, FailMode) \/ TabSteps(1, FailMode))

\* A tab-created invocation whose detection query was rejected has returned
\* through the catch of handleTabCreated.
C21_Witness ==
  \E i \in Idx : /\ inflight[i].kind = "created"
                 /\ inflight[i].queryFailed
                 /\ inflight[i].pc = "done"

\* C22: a tab-created invocation whose detection query was rejected ends as
\* one that found no limit exceeded: it has closed or moved no tab, requested
\* no notification, written no passes, and has refreshed the counters and
\* the badge.
C22_QueryFailureIsEmptyResult ==
  \A i \in Idx :
    LET h == inflight[i] IN
      (h.kind = "created" /\ h.queryFailed /\ h.pc = "done") =>
        /\ h.acted = "none"
        /\ ~h.alerted
        /\ h.wrotePasses = -1
        /\ h.refreshed

\* C23: a tab-created invocation that has just closed or moved its tab had
\* no rejected storage read, storage write or tab query before that.
C23_FailureNeverEnforces ==
  \A i \in Idx :
    LET h == inflight[i] IN
      (h.kind = "created" /\ h.acted \in {"remove", "relocate"}
         /\ h.pc = afterExceed) => ~h.ioFailed

\* The tabs of the given windows that count under the options: the pinned
\* ones only with countPinnedTabs.
Counted(options, ws) ==
  LET n == [w \in Windows |->
              winTabs[w] + (IF options.countPinnedTabs THEN winPinned[w] ELSE 0)]
  IN  SumOver(n, ws)

Detecting ==
  /\ inflight # <<>> /\ inflight[1].pc = "detect"
  /\ Len(inflight') = Len(inflight) /\ inflight'[1].pc # "detect"

\* C25: tabQuery adds pinned = false to the query exactly when
\* countPinnedTabs is off and keeps the scope it was given, so the counts a
\* tab-created invocation compares with the limits include the pinned tabs
\* if and only if countPinnedTabs is on; the detection step changes nothing
\* in the browser or in the storage areas.
C25_PinnedCountIffOption ==
  /\ [](\A i \in Idx :
          LET h == inflight[i] IN
            Detected(h) =>
              /\ h.windowLen = Counted(h.options, {currentWindow})
              /\ h.totalLen = Counted(h.options, Windows)
              /\ \A scope \in {InWindow, Everywhere} :
                   LET q == tabQueryParams(h.options, scope) IN
                     /\ q.currentWindow = scope.currentWindow
                     /\ (q.pinned = "false") <=> ~h.options.countPinnedTabs)
  /\ [][Detecting => UNCHANGED <<winTabs, winPinned, currentWindow, session,
                                 sync, badge>>]_vars

\* A detection that counted a pinned tab, and the limit was exceeded by it.
C25_Witness ==
  \E i \in Idx :
    LET h == inflight[i] IN
      /\ Detected(h) /\ h.options.countPinnedTabs
      /\ winPinned[currentWindow] > 0
      /\ h.windowLen = h.options.maxWindow + 1
      /\ h.place = "window"

\* C26: a limit that is NaN never triggers: a detection with maxTotal NaN
\* never yields "total" and one with maxWindow NaN never yields "window",
\* whatever the tab counts.
C26_NaNDisablesScope ==
  \A i \in Idx :
    LET h == inflight[i] IN
      Detected(h) =>
        /\ h.options.maxTotal = NaN => h.place # "total"
        /\ h.options.maxWindow = NaN => h.place # "window"

\* The window limit is NaN and more tabs are open in the window than the
\* total limit allows: the detection yields "total".
C26_Witness ==
  \E i \in Idx :
    LET h == inflight[i] IN
      /\ Detected(h)
      /\ h.options.maxWindow = NaN /\ h.options.maxTotal = 3
      /\ h.windowLen > 3 /\ h.place = "total"

\* C27: in every alert, each token is replaced as the reference mapping
\* says: place and which by "one window" for the window scope and "total"
\* otherwise, maxPlace and maxWhich by the limit of the scope, any key of the
\* options by its value whatever that value is, and anything else by "?".
C27_ReplacerAgreesWithReference ==
  \A i \in Idx :
    LET h == inflight[i] IN
      h.alerted =>
        \A t \in Tokens :
          h.replaced[t] =
            CASE t \in {"place", "which"} ->
                   IF h.place = "window" THEN "one window" ELSE "total"
              [] t \in {"maxPlace", "maxWhich"} ->
                   IF h.place = "window"
                   THEN ValueToString("maxWindow", h.options.maxWindow)
                   ELSE ValueToString("maxTotal", h.options.maxTotal)
              [] OTHER ->
                   IF t \in DOMAIN h.options
                   THEN ValueToString(t, h.options[t])
                   ELSE "?"

\* C28: starting from passes p >= 0, incrementPasses(n) returns p + n, every
\* decrementPasses() after it returns the value it stored, and after n of
\* them passes is p again.
C28_IncrementThenDecrementRestores ==
  \A i \in Idx :
    LET h == inflight[i] IN
      h.kind = "script" =>
        /\ h.pc # "increment" =>
             /\ h.incremented = h.before + h.amount
             /\ h.ret = SessionStateGet.passes
             /\ h.ret = h.before + h.left
        /\ h.pc = "end" => SessionStateGet.passes = h.before

\* A script that added 4 to passes = 1 and took all four back.
C28_Witness ==
  \E i \in Idx :
    /\ inflight[i].kind = "script" /\ inflight[i].pc = "end"
    /\ inflight[i].before = 1 /\ inflight[i].amount = 4
    /\ inflight[i].incremented = 5

\* C29: a write to the session area merges: whenever the area changes, what
\* getSessionState returns afterwards is what it returned before with
\* exactly the written keys replaced: the three counters for the write of
\* updateTabCount (passes kept), passes alone for the two writes of
\* handleTabCreated (counters kept).
C29_SessionWriteMerges ==
  [][session' # session =>
       \E i \in Idx :
         LET h == inflight[i]
             before == getSessionState
             after == getSessionState'
         IN  \/ /\ h.pc = "utc_set"
                /\ after = [before EXCEPT !.previousTabCount = h.previousTabCount,
                                          !.tabCount = h.tabCount,
                                          !.amountOfTabsCreated = h.amount]
             \/ /\ h.pc = "dec_passes"
                /\ after = [before EXCEPT !.passes = h.passes - 1]
             \/ /\ h.pc = "set_passes"
                /\ after = [before EXCEPT !.passes = batchPasses(h.delta)]]_vars

\* Passes were written for a batch while the counters hold a count.
C29_Witness ==
  /\ getSessionState.passes = 1 /\ getSessionState.tabCount > 0
  /\ \E i \in Idx : inflight[i].wrotePasses = 1 /\ inflight[i].pc = "done"

\* C30: when updateTabCount finds a global count n that differs from the
\* stored tabCount t, its write leaves previousTabCount = t, tabCount = n and
\* amountOfTabsCreated = n - t, or 0 when t = -1, with passes as it was, and
\* the value it returns to handleTabCreated is the amount it stored.
C30_UpdateTabCountPersistsDelta ==
  [][(inflight # <<>> /\ inflight[1].pc = "utc_set") =>
       LET t == getSessionState.tabCount
           n == chromeTabsQuery(Everywhere)
           after == getSessionState'
       IN  /\ n # t
           /\ after = [getSessionState EXCEPT
                         !.previousTabCount = t,
                         !.tabCount = n,
                         !.amountOfTabsCreated = IF t # -1 THEN n - t ELSE 0]
           /\ inflight[1].ret = "tc" =>
                inflight'[1].delta = after.amountOfTabsCreated]_vars

\* updateTabCount has just stored the delta of two tabs created at once and
\* returned it to handleTabCreated.
C30_Witness ==
  \E i \in Idx :
    /\ inflight[i].wroteCount /\ inflight[i].pc = "get_passes"
    /\ inflight[i].delta = 2
    /\ getSessionState.previousTabCount > 0
    /\ getSessionState.tabCount = getSessionState.previousTabCount + 2
    /\ getSessionState.amountOfTabsCreated = 2

(* ------------------------------- C31 ----------------------------------- *)
\* C31: updateTabCount is a no-op when nothing changed.  When the number of
\* open tabs equals the stored tabCount, the step of updateTabCount that
\* has read the session area writes no session key, does not go on to the
\* write of the counters, and hands handleTabCreated the stored
\* amountOfTabsCreated; a second call in the same state therefore finds the
\* same session area and returns the same value.
C31_UnchangedCountIsNoOp ==
  [][(/\ inflight # <<>>
      /\ inflight[1].pc = "utc_get"
      /\ chromeTabsQuery(Everywhere) = getSessionState.tabCount)
     => /\ session' = session
        /\ inflight'[1].pc # "utc_set"
        /\ inflight'[1].pc = afterUpdateTabCount(inflight[1].ret)
        /\ inflight[1].ret = "tc"
             => inflight'[1].delta = getSessionState.amountOfTabsCreated]_vars

\* A tab-created handler got the stored delta of a batch (2) back from
\* updateTabCount without a write of the counters.
C31_Witness ==
  /\ inflight # <<>>
  /\ inflight[1].kind = "created"
  /\ inflight[1].pc = "get_passes"
  /\ ~inflight[1].wroteCount
  /\ inflight[1].delta = 2
  /\ getSessionState.amountOfTabsCreated = 2
  /\ getSessionState.tabCount = chromeTabsQuery(Everywhere)

(* ------------------------------- C32 ----------------------------------- *)
CounterKeys == {"previousTabCount", "tabCount", "amountOfTabsCreated"}

\* C32: the three counters are persisted together.  In every state of the
\* session area, between any two steps of interleaved handlers too, the
\* three counter keys are all stored or none is, and either tabCount is -1
\* (nothing recorded), or previousTabCount is -1 and amountOfTabsCreated is
\* 0 (the first observation), or amountOfTabsCreated is
\* tabCount - previousTabCount.
C32_CountersPersistedTogether ==
  LET state == getSessionState IN
    /\ DOMAIN session \cap CounterKeys \in {{}, CounterKeys}
    /\ \/ state.tabCount = -1
       \/ state.previousTabCount = -1 /\ state.amountOfTabsCreated = 0
       \/ state.amountOfTabsCreated = state.tabCount - state.previousTabCount

\* The counters hold a real difference while one updateTabCount is about to
\* write and another invocation is between its steps.
C32_Witness ==
  /\ getSessionState.previousTabCount # -1
  /\ getSessionState.amountOfTabsCreated # 0
  /\ \E i, j \in Idx :
       /\ i # j
       /\ inflight[i].pc = "utc_set"
       /\ inflight[i].tabCount # getSessionState.tabCount
       /\ inflight[j].pc \in {"utc_get", "get_passes", "alert", "exceed"}

(* ------------------------------- C33 ----------------------------------- *)
\* C33: within one handleTabCreated invocation no awaited operation lies
\* between the read of passes and the write of passes that follows it: an
\* invocation that has read passes and is waiting for the awaited
\* displayAlert does not write passes afterwards.
C33_PassesWrittenRightAfterRead ==
  \A i \in Idx :
    LET h == inflight[i] IN
      (h.kind = "created" /\ h.pc = "alert") => afterAlert(h.delta) # "set_passes"

(* ------------------------------- C34 ----------------------------------- *)
\* C34: a single over-limit tab restores the total limit.  The only handler
\* in flight belongs to the one tab created since the counters were up to
\* date (it counted a delta of 1 and read passes = 0), the tabs counted
\* before that tab were at most maxTotal (>= 1): when the handler enforces,
\* the counted tabs are at most maxTotal again, whatever maxWindow and
\* exceedTabNewWindow are.
C34_SingleTabRestoresTotal ==
  [][(/\ Len(inflight) = 1
      /\ inflight[1].kind = "created" /\ inflight[1].pc = "exceed"
      /\ inflight[1].tab.alive
      /\ inflight[1].wroteCount /\ inflight[1].delta = 1
      /\ inflight[1].passes = 0
      /\ inflight[1].options.maxTotal >= 1
      /\ tabQuery(inflight[1].options, Everywhere) - 1
           <= inflight[1].options.maxTotal)
     => tabQuery(inflight[1].options, Everywhere)'
          <= inflight[1].options.maxTotal]_vars

(* ------------------------------- C35 ----------------------------------- *)
\* C35: the stored tab count converges.  Whenever every invocation that
\* the events so far have triggered has returned, the stored tabCount is
\* the number of open tabs, whatever the interleaving of the handlers was.
C35_StoredCountConverges ==
  inflight = <<>> => getSessionState.tabCount = chromeTabsQuery(Everywhere)

(* ------------------------------- C36 ----------------------------------- *)
\* C36: the pass budget is never over-spent.  After an invocation has set
\* passes to k = d - 1, as long as every invocation that read passes since
\* took the suppression branch (none read passes = 0 again), at most k
\* invocations have taken it, whatever the interleaving of the handlers.
C36_PassBudgetNotOverspent ==
  LET b == hist.batch IN
    (b.d > 1 /\ b.seen = b.supp) => b.supp <= batchPasses(b.d)

(* ------------------------------- C37 ----------------------------------- *)
\* C37: window-scope enforcement acts on the offending window.  A tab that
\* handleTabCreated is closing or relocating, or has closed, with scope
\* "window" is a tab of the window whose count was found above maxWindow,
\* also when it was created in a window that is not the focused one.
C37_WindowScopeActsOnCountedWindow ==
  \A i \in Idx :
    LET h == inflight[i] IN
      (/\ h.kind = "created" /\ h.place = "window"
       /\ \/ h.pc = "exceed" /\ h.tab.alive
          \/ h.acted = "remove")
      => h.tab.win = h.detectWin

(* ------------------------------- C38 ----------------------------------- *)
\* C38: an alert is never raised without a corrective step.  An invocation
\* of handleTabCreated that has returned and requested a notification has
\* also made its close/relocate call or stored a positive passes; one that
\* got a delta of 0 or below -1 has requested no notification, made no
\* close/relocate call and written no passes.
C38_AlertImpliesCorrection ==
  \A i \in Idx :
    LET h == inflight[i] IN
      (h.kind = "created" /\ h.pc = "done") =>
        /\ h.alerted => (h.acted # "none" \/ h.wrotePasses > 0)
        /\ (Exceeded(h) /\ h.passes = 0 /\ (h.delta = 0 \/ h.delta < -1)) =>
             (~h.alerted /\ h.acted = "none" /\ h.wrotePasses = -1)

(* ------------------------------- C39 ----------------------------------- *)
\* C39: a creation delta of -1 always means "unknown".  When updateTabCount
\* has handed handleTabCreated the value -1, and when handleTabCreated
\* takes the fallback of line 269, the delta is not the difference of a
\* recorded previous count and a recorded current count.
C39_MinusOneMeansUnknown ==
  \A i \in Idx :
    LET h == inflight[i] IN
      (/\ Exceeded(h) /\ h.delta = -1
       /\ h.pc \in {"get_passes", "alert", "exceed"})
      => ~h.deltaKnown

(* ------------------------------- C40 ----------------------------------- *)
\* C40: in the service-worker variant a tab-created event for which no
\* limit is exceeded still terminates.  A tab-created invocation that is
\* past its detection without a scope "window" or "total" has got "no limit
\* exceeded" (null) from the detection and is running handleUpdate or has
\* returned from it.
C40_NoLimitDetectionSettles ==
  \A i \in Idx :
    LET h == inflight[i] IN
      (h.kind = "created" /\ h.pc # "detect" /\ h.place \notin {"window", "total"})
      => /\ h.place = Null
         /\ h.ret = "hu"
         /\ h.pc \in {"utc_query", "utc_get", "utc_set", "badge", "done"}

====
